---- MODULE Spec2Model ----
(***************************************************************************)
(* Model of the networking app's server (src/unnamed/part_004, server.js): *)
(* the composite scorer calculateMatchScore with its need/asset matcher,   *)
(* the fallback rationale generator, and the request handlers that rank    *)
(* candidates, call the external AI capabilities stage by stage and upsert *)
(* match records (intros) into the store.                                  *)
(*                                                                         *)
(* Representation.  JavaScript strings are TLA+ strings; a missing (null)  *)
(* optional column is the empty string, which the code treats the same way *)
(* (both are falsy).  A similarity is an integer number of thousandths, so *)
(* that 1000 stands for 1.0.                                                *)
(***************************************************************************)
EXTENDS Integers, Sequences, FiniteSets, Bags, TLC

(***************************************************************************)
(* String primitives of the JavaScript runtime.                            *)
(***************************************************************************)
CharAt(s, i) == SubSeq(s, i, i)

\* String.prototype.includes
Includes(s, t) == \E i \in 0..(Len(s) - Len(t)) : SubSeq(s, i + 1, i + Len(t)) = t

UpperChars == "ABCDEFGHIJKLMNOPQRSTUVWXYZ"
LowerChars == "abcdefghijklmnopqrstuvwxyz"
Digits == "0123456789"

IsDigit(c) == \E k \in 1..Len(Digits) : CharAt(Digits, k) = c

LowerChar(c) ==
  IF \E k \in 1..Len(UpperChars) : CharAt(UpperChars, k) = c
  THEN CharAt(LowerChars, CHOOSE k \in 1..Len(UpperChars) : CharAt(UpperChars, k) = c)
  ELSE c

\* String.prototype.toLowerCase
RECURSIVE toLowerCase(_)
toLowerCase(s) ==
  IF Len(s) = 0 THEN ""
  ELSE LowerChar(CharAt(s, 1)) \o toLowerCase(SubSeq(s, 2, Len(s)))

\* String.prototype.trim (the only white space of the profiles is the blank)
RECURSIVE trim(_)
trim(s) ==
  IF Len(s) = 0 THEN ""
  ELSE IF CharAt(s, 1) = " " THEN trim(SubSeq(s, 2, Len(s)))
  ELSE IF CharAt(s, Len(s)) = " " THEN trim(SubSeq(s, 1, Len(s) - 1))
  ELSE s

\* String.prototype.split(sep) for a one-character separator
RECURSIVE split(_, _)
split(s, sep) ==
  IF \E i \in 1..Len(s) : CharAt(s, i) = sep
  THEN LET i == CHOOSE k \in 1..Len(s) :
                  /\ CharAt(s, k) = sep
                  /\ \A j \in 1..(k - 1) : CharAt(s, j) # sep
       IN  <<SubSeq(s, 1, i - 1)>> \o split(SubSeq(s, i + 1, Len(s)), sep)
  ELSE <<s>>

\* String.prototype.split(/\s+/): a run of blanks separates, and a leading
\* or trailing run leaves an empty first or last element
RECURSIVE skipBlanks(_)
skipBlanks(s) ==
  IF Len(s) > 0 /\ CharAt(s, 1) = " " THEN skipBlanks(SubSeq(s, 2, Len(s))) ELSE s

RECURSIVE splitWhitespace(_)
splitWhitespace(s) ==
  IF \E i \in 1..Len(s) : CharAt(s, i) = " "
  THEN LET i == CHOOSE k \in 1..Len(s) :
                  /\ CharAt(s, k) = " "
                  /\ \A j \in 1..(k - 1) : CharAt(s, j) # " "
       IN  <<SubSeq(s, 1, i - 1)>> \o splitWhitespace(skipBlanks(SubSeq(s, i, Len(s))))
  ELSE <<s>>

\* Array.prototype.map over a sequence
MapSeq(Op(_), q) == [i \in 1..Len(q) |-> Op(q[i])]

\* Array.prototype.filter over a sequence, keeping the order
RECURSIVE FilterSeq(_, _)
FilterSeq(Keep(_), q) ==
  IF q = <<>> THEN <<>>
  ELSE IF Keep(Head(q)) THEN <<Head(q)>> \o FilterSeq(Keep, Tail(q))
  ELSE FilterSeq(Keep, Tail(q))

\* a regular expression that is an alternation of literals, with flag i
TestAlternation(alts, s) == \E a \in alts : Includes(toLowerCase(s), a)

Min(a, b) == IF a < b THEN a ELSE b
Max(a, b) == IF a > b THEN a ELSE b

\* Math.round(n / d) for d > 0: halves round towards plus infinity
RoundDiv(n, d) == (2 * n + d) \div (2 * d)

(***************************************************************************)
(* Semantic compatibility matcher: matchesNeedAsset, the closure defined    *)
(* inside calculateMatchScore.                                              *)
(***************************************************************************)
\* the synonym table, one entry per key
keywords == <<
    [key |-> "marketing", synonyms |-> {"seo", "social media", "content", "brand", "advertising", "promotion", "digital marketing", "pr", "public relations", "campaign"}],
    [key |-> "seo", synonyms |-> {"marketing", "digital marketing", "google", "search", "content", "web"}],
    [key |-> "social media", synonyms |-> {"marketing", "content creation", "brand", "instagram", "facebook", "linkedin", "tiktok"}],
    [key |-> "branding", synonyms |-> {"marketing", "design", "logo", "identity", "brand strategy"}],
    [key |-> "content", synonyms |-> {"marketing", "writing", "blog", "social media", "video", "copywriting"}],
    [key |-> "sales", synonyms |-> {"lead generation", "business development", "revenue", "customers", "pipeline"}],
    [key |-> "lead generation", synonyms |-> {"sales", "marketing", "outreach", "prospecting", "demand generation"}],
    [key |-> "business development", synonyms |-> {"sales", "partnerships", "growth", "revenue", "clients"}],
    [key |-> "tech", synonyms |-> {"technology", "software", "development", "engineering", "it", "technical"}],
    [key |-> "software", synonyms |-> {"tech", "development", "app", "platform", "saas", "coding"}],
    [key |-> "web development", synonyms |-> {"tech", "software", "website", "coding", "programming", "web design"}],
    [key |-> "app development", synonyms |-> {"tech", "software", "mobile", "coding"}],
    [key |-> "automation", synonyms |-> {"tech", "software", "efficiency", "tools", "systems"}],
    [key |-> "finance", synonyms |-> {"accounting", "bookkeeping", "cfo", "financial planning", "capital"}],
    [key |-> "funding", synonyms |-> {"capital", "investment", "money", "financing", "fundraising"}],
    [key |-> "investment", synonyms |-> {"capital", "funding", "money", "financing", "venture"}],
    [key |-> "operations", synonyms |-> {"management", "efficiency", "process", "logistics", "systems"}],
    [key |-> "logistics", synonyms |-> {"operations", "supply chain", "shipping", "delivery", "distribution"}],
    [key |-> "hiring", synonyms |-> {"talent", "recruitment", "hr", "staffing", "team building"}],
    [key |-> "talent", synonyms |-> {"hiring", "recruitment", "team", "employees", "hr"}],
    [key |-> "strategy", synonyms |-> {"planning", "consulting", "advisory", "business strategy", "growth strategy"}],
    [key |-> "consulting", synonyms |-> {"advisory", "strategy", "expertise", "guidance"}],
    [key |-> "partnerships", synonyms |-> {"collaboration", "alliances", "business development", "joint venture"}]
  >>

\* the (need, asset) pattern pairs; each regex is an alternation with flag i
needPatterns == <<
    [need |-> {"customer", "client", "lead"},
     asset |-> {"sales", "marketing", "business development", "crm"}],
    [need |-> {"revenue", "money", "profit"},
     asset |-> {"sales", "marketing", "finance", "pricing", "monetization"}],
    [need |-> {"website", "web", "online"},
     asset |-> {"web", "development", "design", "digital", "tech"}],
    [need |-> {"brand", "awareness", "visibility"},
     asset |-> {"marketing", "pr", "social", "media", "branding"}],
    [need |-> {"scale", "growth", "expand"},
     asset |-> {"strategy", "consulting", "automation", "systems", "operations"}],
    [need |-> {"team", "hire", "talent"},
     asset |-> {"hr", "recruitment", "staffing", "hiring"}],
    [need |-> {"legal", "contract", "compliance"},
     asset |-> {"law", "attorney", "legal"}],
    [need |-> {"capital", "funding", "money"},
     asset |-> {"investment", "finance", "funding", "capital"}]
  >>

\* rule 1: direct substring match, either direction
directMatch(need, asset) == Includes(asset, need) \/ Includes(need, asset)

\* a variant in which the asset must contain the key of the cluster itself
clusterMatchOnKey(need, asset) ==
  LET needLower == toLowerCase(need)
      assetLower == toLowerCase(asset)
  IN  \E k \in 1..Len(keywords) :
        /\ \/ Includes(needLower, keywords[k].key)
           \/ \E syn \in keywords[k].synonyms : Includes(needLower, syn)
        /\ Includes(assetLower, keywords[k].key)

\* rule 2: need and asset are in the same semantic cluster
clusterMatch(need, asset) ==
  LET needLower == toLowerCase(need)
      assetLower == toLowerCase(asset)
      InCluster(s, k) ==
        \/ Includes(s, keywords[k].key)
        \/ \E syn \in keywords[k].synonyms : Includes(s, syn)
  IN  \E k \in 1..Len(keywords) : InCluster(needLower, k) /\ InCluster(assetLower, k)

\* rule 3: a common business need pattern, need regex against asset regex
patternMatch(need, asset) ==
  \E k \in 1..Len(needPatterns) :
     /\ TestAlternation(needPatterns[k].need, need)
     /\ TestAlternation(needPatterns[k].asset, asset)

matchesNeedAsset(need, asset) ==
  \/ directMatch(need, asset)
  \/ clusterMatch(need, asset)
  \/ patternMatch(need, asset)

(***************************************************************************)
(* Composite scorer: calculateMatchScore(member1, member2, similarity,      *)
(* complementaryValueResearch).  A profile is a row of the members table;   *)
(* a research object is the parsed answer of researchComplementaryValue,    *)
(* of which the scorer reads the idea list and the value rating; present = *)
(* FALSE is the null default of the parameter.                              *)
(***************************************************************************)
NoResearch == [present |-> FALSE, creative_collaboration_ideas |-> <<>>, value_rating |-> ""]

universalPoints == 30
maxSemanticPoints == 20
pointsPerMatch == 4
maxComplementaryPoints == 20
maxMarketPoints == 15
maxLocationPoints == 5
maxStrategyPoints == 10
maxPossiblePoints == 100

\* member.needs ? member.needs.split(',').map(n => n.trim().toLowerCase()) : []
parseList(s) ==
  IF s = "" THEN <<>>
  ELSE LET Norm(n) == toLowerCase(trim(n)) IN MapSeq(Norm, split(s, ","))

\* a variant with twice the weight
semanticPointsDoubled(similarity) == RoundDiv(similarity * 2 * maxSemanticPoints, 1000)

\* Math.round(similarity * maxSemanticPoints)
semanticPoints(similarity) == RoundDiv(similarity * maxSemanticPoints, 1000)

\* number of (asset, need) pairs, asset from assets and need from needs, that match
countMatches(assets, needs) ==
  Cardinality({ij \in (1..Len(assets)) \X (1..Len(needs)) :
                 matchesNeedAsset(needs[ij[2]], assets[ij[1]])})

\* number of assets that match the other member's (lower-cased) constraint
countConstraintMatches(constraintLower, assets) ==
  IF constraintLower = "" THEN 0
  ELSE Cardinality({i \in 1..Len(assets) : matchesNeedAsset(constraintLower, assets[i])})

complementaryMatches(member1, member2) ==
    countMatches(parseList(member1.assets), parseList(member2.needs))
  + countMatches(parseList(member2.assets), parseList(member1.needs))
  + countConstraintMatches(toLowerCase(member2.current_constraint), parseList(member1.assets))
  + countConstraintMatches(toLowerCase(member1.current_constraint), parseList(member2.assets))

\* a variant that sets the points of the idea count instead of raising to them
researchBoostReplacing(points, research) ==
  LET creativeIdeasCount == Len(research.creative_collaboration_ideas)
  IN  IF creativeIdeasCount >= 4 THEN 16
      ELSE IF creativeIdeasCount >= 2 THEN 12
      ELSE IF creativeIdeasCount >= 1 THEN 8
      ELSE points

\* the research boost: creative ideas first, then the overall value rating
researchBoost(points, research) ==
  LET creativeIdeasCount == Len(research.creative_collaboration_ideas)
      valueRating == toLowerCase(research.value_rating)
      afterIdeas == IF creativeIdeasCount >= 4 THEN Max(points, 16)
                    ELSE IF creativeIdeasCount >= 2 THEN Max(points, 12)
                    ELSE IF creativeIdeasCount >= 1 THEN Max(points, 8)
                    ELSE points
  IN  IF valueRating = "high" THEN Max(afterIdeas, 14)
      ELSE IF valueRating = "medium" THEN Max(afterIdeas, 9)
      ELSE IF valueRating = "low" /\ creativeIdeasCount = 0 THEN Max(afterIdeas, 4)
      ELSE afterIdeas

\* Math.min(complementaryMatches * 4, maxComplementaryPoints)
keywordPoints(member1, member2) ==
  Min(complementaryMatches(member1, member2) * pointsPerMatch, maxComplementaryPoints)

\* /\$\d+[mk]|\d+ year|million|billion|national|awarded/i
isEstablished(funfact) ==
  \/ \E i \in 1..Len(funfact), j \in 1..Len(funfact) :
        /\ i < j
        /\ j + 1 <= Len(funfact)
        /\ CharAt(funfact, i) = "$"
        /\ \A k \in (i + 1)..j : IsDigit(CharAt(funfact, k))
        /\ CharAt(funfact, j + 1) \in {"m", "k"}
  \/ \E i \in 1..Len(funfact) :
        /\ IsDigit(CharAt(funfact, i))
        /\ SubSeq(funfact, i + 1, i + 5) = " year"
  \/ TestAlternation({"million", "billion", "national", "awarded"}, funfact)

isFounder(role) ==
  Includes(role, "founder") \/ Includes(role, "ceo") \/ Includes(role, "owner")

isB2B(rev) ==
  \/ Includes(rev, "b2b") \/ Includes(rev, "enterprise") \/ Includes(rev, "saas")
  \/ Includes(rev, "consulting") \/ Includes(rev, "agency")

isB2C(rev) ==
  \/ Includes(rev, "retail") \/ Includes(rev, "consumer")
  \/ Includes(rev, "ecommerce") \/ Includes(rev, "subscription")

marketPoints(member1, member2) ==
  LET rev1 == toLowerCase(member1.rev_driver)
      rev2 == toLowerCase(member2.rev_driver)
      model == IF (isB2B(rev1) /\ isB2B(rev2)) \/ (isB2C(rev1) /\ isB2C(rev2)) THEN 5
               ELSE IF (isB2B(rev1) /\ isB2C(rev2)) \/ (isB2C(rev1) /\ isB2B(rev2)) THEN 3
               ELSE 0
      founders == IF isFounder(toLowerCase(member1.role)) /\ isFounder(toLowerCase(member2.role))
                  THEN 5 ELSE 0
      est1 == isEstablished(toLowerCase(member1.fun_fact))
      est2 == isEstablished(toLowerCase(member2.fun_fact))
      established == IF est1 /\ est2 THEN 3 ELSE IF est1 \/ est2 THEN 2 ELSE 0
      growth == IF member1.current_constraint # "" /\ member2.current_constraint # ""
                THEN 2 ELSE 0
  IN  Min(model + founders + established + growth, maxMarketPoints)

locationPoints(member1, member2) ==
  LET city1 == trim(toLowerCase(member1.city))
      city2 == trim(toLowerCase(member2.city))
  IN  IF city1 # "" /\ city2 # "" THEN (IF city1 = city2 THEN 5 ELSE 2) ELSE 2

crossIndustrySynergies == {
    "technology-marketing", "technology-finance", "technology-real estate",
    "marketing-real estate", "marketing-finance", "marketing-food & hospitality",
    "technology-food & hospitality", "real estate-legal", "finance-legal",
    "online education-marketing", "consulting-*" }

\* 3 points when an asset of the helper contains a word, longer than 3
\* characters, of the other member's constraint
solutionPoints(constraint, assets) ==
  IF constraint # "" /\ Len(assets) > 0
  THEN LET words == splitWhitespace(toLowerCase(constraint))
           Addresses(asset) == \E w \in 1..Len(words) :
                                  Len(words[w]) > 3 /\ Includes(asset, words[w])
       IN  IF Len(FilterSeq(Addresses, assets)) > 0 THEN 3 ELSE 0
  ELSE 0

strategyPoints(member1, member2) ==
  LET ind1 == toLowerCase(member1.industry)
      ind2 == toLowerCase(member2.industry)
      industry ==
        IF ind1 # "" /\ ind2 # "" /\ ind1 # ind2
        THEN IF (ind1 \o "-" \o ind2) \in crossIndustrySynergies THEN 6
             ELSE IF (ind2 \o "-" \o ind1) \in crossIndustrySynergies THEN 6
             ELSE IF (ind1 \o "-*") \in crossIndustrySynergies THEN 4
             ELSE IF (ind2 \o "-*") \in crossIndustrySynergies THEN 4
             ELSE 2
        ELSE IF ind1 # "" /\ ind2 # "" /\ ind1 = ind2 THEN 4
        ELSE 0
  IN  Min(  industry
          + solutionPoints(member1.current_constraint, parseList(member2.assets))
          + solutionPoints(member2.current_constraint, parseList(member1.assets)),
          maxStrategyPoints)

Category(factor, points, maxPoints) ==
  [factor |-> factor, points |-> points, maxPoints |-> maxPoints]

RECURSIVE SumPoints(_)
SumPoints(breakdown) ==
  IF breakdown = <<>> THEN 0 ELSE Head(breakdown).points + SumPoints(Tail(breakdown))


(***************************************************************************)
(* Fallback rationale generator: generateSimpleRationale(member1, member2). *)
(***************************************************************************)
\* member.needs ? member.needs.split(',').map(n => n.trim()) : []
parseListRaw(s) == IF s = "" THEN <<>> ELSE MapSeq(trim, split(s, ","))

\* the index pairs of "for (a of outer) for (b of inner)", in loop order
LoopPairs(outer, inner) ==
  [k \in 1..(Len(outer) * Len(inner)) |->
     <<((k - 1) \div Len(inner)) + 1, ((k - 1) % Len(inner)) + 1>>]

simpleMatch(need, asset) ==
  \/ Includes(toLowerCase(asset), toLowerCase(need))
  \/ Includes(toLowerCase(need), toLowerCase(asset))

simpleMatches(member1, member2) ==
  LET needs1 == parseListRaw(member1.needs)
      assets2 == parseListRaw(member2.assets)
      needs2 == parseListRaw(member2.needs)
      assets1 == parseListRaw(member1.assets)
      Hit1(p) == simpleMatch(needs1[p[1]], assets2[p[2]])
      Hit2(p) == simpleMatch(needs2[p[1]], assets1[p[2]])
      Text1(p) == member2.name \o "'s " \o assets2[p[2]]
                    \o " can help with your need for " \o needs1[p[1]]
      Text2(p) == "Your " \o assets1[p[2]] \o " can help " \o member2.name
                    \o "'s need for " \o needs2[p[1]]
  IN  MapSeq(Text1, FilterSeq(Hit1, LoopPairs(needs1, assets2)))
        \o MapSeq(Text2, FilterSeq(Hit2, LoopPairs(needs2, assets1)))

OrElse(s, default) == IF s # "" THEN s ELSE default

generateSimpleRationale(member1, member2) ==
  LET matches == simpleMatches(member1, member2)
  IN  [rationale_ops |->
         IF Len(matches) > 0 THEN matches[1]
         ELSE "Both in " \o OrElse(member1.industry, "business") \o " and "
                \o OrElse(member2.industry, "business") \o ", potential for collaboration",
       creative_angle |->
         IF member1.fun_fact # "" /\ member2.fun_fact # ""
         THEN "Connect over shared interests"
         ELSE "Explore synergies between " \o member1.org \o " and " \o member2.org,
       intro_basis |->
         "Start by discussing " \o OrElse(member1.current_constraint, "current challenges")
           \o " and how " \o member2.org \o "'s expertise might help"]

(***************************************************************************)
(* The attendee profiles of the model: rows of the members table, keyed by  *)
(* member_id.  Registration assigns the id, the other columns come from the *)
(* request body.                                                            *)
(***************************************************************************)
Profile(id, name, org, role, industry, city, rev, constraint, assets, needs, fun) ==
  [member_id |-> id, name |-> name, org |-> org, role |-> role, industry |-> industry,
   city |-> city, rev_driver |-> rev, current_constraint |-> constraint,
   assets |-> assets, needs |-> needs, fun_fact |-> fun]

Profiles == <<
  Profile(1, "Ada", "Ada Labs", "Founder & CEO", "Technology", "Austin",
          "B2B SaaS", "need branding help",
          "software, automation", "marketing, seo", "raised $5m"),
  Profile(2, "Bo", "Bo Media", "CEO", "Marketing", "Austin",
          "agency retainers", "need software tools",
          "Social Media, branding", "software", "10 years in business"),
  Profile(3, "Cy", "Cy Law", "Attorney", "Legal", "Dallas",
          "retail clients", "",
          "legal", "clients", ""),
  Profile(4, "Di", "Di Co", "Manager", "", "",
          "", "",
          "", "", ""),
  Profile(5, "Ed", "Ed Sales", "Owner", "Technology", "Dallas",
          "consumer subscription", "need leads",
          "sales", "funding, legal", "nationally awarded") >>

(***************************************************************************)
(* The text-derived points of a pair do not change while the profiles stay  *)
(* the same, so they are tabulated once for the profiles of the model; the  *)
(* scorer reads the table.                                                  *)
(***************************************************************************)
textPoints(member1, member2) ==
  [keyword |-> keywordPoints(member1, member2),
   market |-> marketPoints(member1, member2),
   location |-> locationPoints(member1, member2),
   strategy |-> strategyPoints(member1, member2)]

TextPoints ==
  LET n == Len(Profiles)
      table == [k \in 1..(n * n) |->
                  textPoints(Profiles[((k - 1) \div n) + 1], Profiles[((k - 1) % n) + 1])]
  IN  CHOOSE t \in {table} : t = table

PointsOf(member1, member2) ==
  TextPoints[(member1.member_id - 1) * Len(Profiles) + member2.member_id]

\* generateSimpleRationale of every pair of profiles, computed once
SimpleRationales ==
  LET n == Len(Profiles)
      table == [k \in 1..(n * n) |->
                  generateSimpleRationale(Profiles[((k - 1) \div n) + 1],
                                          Profiles[((k - 1) % n) + 1])]
  IN  CHOOSE t \in {table} : t = table

SimpleRationale(memberId1, memberId2) ==
  SimpleRationales[(memberId1 - 1) * Len(Profiles) + memberId2]

\* complementaryPoints after the optional research boost
complementaryPoints(keyword, research) ==
  IF research.present THEN researchBoost(keyword, research) ELSE keyword

\* the breakdown array: one entry per category, in the order they are pushed
breakdownOf(points, similarity, complementaryValueResearch) ==
  << Category("Universal Business Potential", universalPoints, universalPoints),
     Category("Semantic Profile Similarity", semanticPoints(similarity), maxSemanticPoints),
     Category("Complementary Value Exchange",
              complementaryPoints(points.keyword, complementaryValueResearch),
              maxComplementaryPoints),
     Category("Market Alignment", points.market, maxMarketPoints),
     Category("Geographic & Logistical Synergy", points.location, maxLocationPoints),
     Category("Strategic Growth Opportunities", points.strategy, maxStrategyPoints) >>

\* totalScore = sum of the breakdown; score = Math.min(totalScore, 100)
totalScore(breakdown) ==
  [score |-> Min(SumPoints(breakdown), maxPossiblePoints), breakdown |-> breakdown]

\* a variant without the self-match guard
scoreUnguarded(member1, member2, similarity, complementaryValueResearch) ==
  totalScore(breakdownOf(PointsOf(member1, member2), similarity,
                         complementaryValueResearch))

calculateMatchScore(member1, member2, similarity, complementaryValueResearch) ==
  IF member1.member_id = member2.member_id
  THEN [score |-> 0, breakdown |-> <<>>]
  ELSE totalScore(breakdownOf(PointsOf(member1, member2), similarity,
                              complementaryValueResearch))

(***************************************************************************)
(* Vector similarity: cosineSimilarity(vec1, vec2), in thousandths.  The    *)
(* vectors of the model have integer norms, which makes the roots exact.    *)
(***************************************************************************)
RECURSIVE Dot(_, _)
Dot(v, w) == IF v = <<>> THEN 0 ELSE Head(v) * Head(w) + Dot(Tail(v), Tail(w))

\* Math.sqrt on the norms of the model's vectors, which are perfect squares
Sqrt(n) == CHOOSE r \in 0..n : r * r <= n /\ (r + 1) * (r + 1) > n

cosineSimilarity(vec1, vec2) ==
  IF Len(vec1) # Len(vec2) THEN 0
  ELSE IF Dot(vec1, vec1) = 0 \/ Dot(vec2, vec2) = 0 THEN 0
  ELSE (Dot(vec1, vec2) * 1000) \div (Sqrt(Dot(vec1, vec1)) * Sqrt(Dot(vec2, vec2)))

(***************************************************************************)
(* Bounds of the model.                                                     *)
(***************************************************************************)
\* the longest creative_collaboration_ideas list a research answer carries
MaxIdeas == 4
\* attendees that register (member ids 1..MaxMembers, profiles Profiles[id])
MaxMembers == 2
\* generation requests (generate-top3 or generate-brainstorm) received
MaxRuns == 2
\* generation requests being served at the same time
MaxInFlight == 1
\* acknowledge, reset-matches and delete-member requests received
MaxOps == 1

Ids == 1..MaxMembers
RunIds == 1..MaxRuns

(***************************************************************************)
(* State.                                                                   *)
(***************************************************************************)
VARIABLES
  members,    \* rows of table members: [member_id, consent] and history declined
  vectors,    \* table vectors: a bag of rows [member_id, embedding_ops]
  intros,     \* rows of table intros
  pending,    \* member ids whose fire-and-forget generateEmbedding is in flight
  runs,       \* the generation requests: RunIds -> the handler's position and locals
  nextMember, \* the id the next registration gets (ids are never reused)
  deleting,   \* the DELETE /api/admin/member request in flight, or NoDelete
  ops,        \* number of admin and acknowledge requests received
  answered,   \* history: some text-generation call has returned a response
  bulk,       \* the POST /api/admin/generate-all-embeddings request
  probe,      \* the pure-function harness: the last scorer call and its result
  sessions    \* express-session: SessionIds -> the session of each browser

vars == <<members, vectors, intros, pending, runs, nextMember, deleting, ops, answered, bulk, probe, sessions>>

storeVars == <<members, vectors, intros, pending, runs, nextMember, deleting, ops, answered, bulk, sessions>>

(***************************************************************************)
(* The stored form of a vector: column embedding_ops holds the text         *)
(* JSON.stringify made of the number array, and the handlers read it back   *)
(* with JSON.parse, which throws on any text that is not JSON.  The vectors *)
(* of the model have integer components.                                    *)
(***************************************************************************)
RECURSIVE digitsOf(_)
digitsOf(n) ==
  IF n < 10 THEN CharAt(Digits, n + 1)
  ELSE digitsOf(n \div 10) \o CharAt(Digits, (n % 10) + 1)

numberText(n) == IF n < 0 THEN "-" \o digitsOf(-n) ELSE digitsOf(n)

\* Array.prototype.join
RECURSIVE join(_, _)
join(q, sep) ==
  IF q = <<>> THEN ""
  ELSE IF Len(q) = 1 THEN q[1]
  ELSE q[1] \o sep \o join(Tail(q), sep)

\* JSON.stringify of an array of numbers
JSONstringify(embedding) == "[" \o join(MapSeq(numberText, embedding), ",") \o "]"

digitValue(c) == CHOOSE d \in 0..9 : CharAt(Digits, d + 1) = c

RECURSIVE naturalOf(_)
naturalOf(s) ==
  IF Len(s) = 1 THEN digitValue(s)
  ELSE 10 * naturalOf(SubSeq(s, 1, Len(s) - 1)) + digitValue(CharAt(s, Len(s)))

\* a JSON integer: an optional minus sign, then digits without a leading zero
isNumber(s) ==
  LET digits == IF Len(s) > 0 /\ CharAt(s, 1) = "-" THEN SubSeq(s, 2, Len(s)) ELSE s
  IN  /\ Len(digits) > 0
      /\ \A i \in 1..Len(digits) : IsDigit(CharAt(digits, i))
      /\ Len(digits) > 1 => CharAt(digits, 1) # "0"

numberOf(s) ==
  IF CharAt(s, 1) = "-" THEN 0 - naturalOf(SubSeq(s, 2, Len(s))) ELSE naturalOf(s)

\* JSON.parse of a stored vector: the array, or ok = FALSE where it throws a
\* SyntaxError
JSONparse(text) ==
  IF Len(text) >= 2 /\ CharAt(text, 1) = "[" /\ CharAt(text, Len(text)) = "]"
  THEN IF Len(text) = 2 THEN [ok |-> TRUE, value |-> <<>>]
       ELSE LET parts == split(SubSeq(text, 2, Len(text) - 1), ",")
            IN  IF \A k \in 1..Len(parts) : isNumber(parts[k])
                THEN [ok |-> TRUE, value |-> MapSeq(numberOf, parts)]
                ELSE [ok |-> FALSE, value |-> <<>>]
  ELSE [ok |-> FALSE, value |-> <<>>]

(***************************************************************************)
(* The persistence collaborator: the SQL statements the handlers run.       *)
(***************************************************************************)
MemberIds == {m.member_id : m \in members}

\* SELECT embedding_ops FROM vectors WHERE member_id = $1 (db.get: first row or null)
hasVector(rows, id) == \E v \in BagToSet(rows) : v.member_id = id

vectorOf(rows, id) == (CHOOSE v \in BagToSet(rows) : v.member_id = id).embedding_ops

\* DELETE FROM vectors WHERE member_id = $1
deleteVector(rows, id) == [v \in {x \in BagToSet(rows) : x.member_id # id} |-> rows[v]]

\* a variant for a table without the key: INSERT INTO vectors adds a row
insertVector(rows, id, text) ==
  rows (+) SetToBag({[member_id |-> id, embedding_ops |-> text]})

\* INSERT INTO vectors ... ON CONFLICT (member_id) DO UPDATE SET embedding_ops = $2
upsertVector(rows, id, text) ==
  deleteVector(rows, id) (+) SetToBag({[member_id |-> id, embedding_ops |-> text]})

SameKey(row, for, to, tier) ==
  row.for_member_id = for /\ row.to_member_id = to /\ row.tier = tier

\* generateId('intro'): an id no row has
freshIntroId(rows) ==
  CHOOSE n \in 1..(Cardinality(rows) + 1) : \A row \in rows : row.intro_id # n

\* a variant without the ON CONFLICT clause and the UNIQUE constraint
insertIntro(rows, for, to, tier, score, breakdown, rationale) ==
  rows \cup {[intro_id |-> freshIntroId(rows), for_member_id |-> for,
              to_member_id |-> to, tier |-> tier, score |-> score,
              score_breakdown |-> breakdown,
              rationale_ops |-> rationale.rationale_ops,
              creative_angle |-> rationale.creative_angle,
              intro_basis |-> rationale.intro_basis,
              status |-> "draft"]}

\* a variant whose DO UPDATE SET also sets status = 'draft'
upsertAsDraft(rows, for, to, tier, score, breakdown, rationale) ==
  {row \in rows : ~SameKey(row, for, to, tier)}
    \cup {[intro_id |-> IF \E row \in rows : SameKey(row, for, to, tier)
                        THEN (CHOOSE row \in rows : SameKey(row, for, to, tier)).intro_id
                        ELSE freshIntroId(rows),
           for_member_id |-> for, to_member_id |-> to, tier |-> tier, score |-> score,
           score_breakdown |-> breakdown,
           rationale_ops |-> rationale.rationale_ops,
           creative_angle |-> rationale.creative_angle,
           intro_basis |-> rationale.intro_basis,
           status |-> "draft"]}

\* INSERT INTO intros ... ON CONFLICT (for_member_id, to_member_id, tier)
\* DO UPDATE SET score, score_breakdown, rationale_ops, creative_angle, intro_basis
upsertIntro(rows, for, to, tier, score, breakdown, rationale) ==
  IF \E row \in rows : SameKey(row, for, to, tier)
  THEN {IF SameKey(row, for, to, tier)
        THEN [row EXCEPT !.score = score, !.score_breakdown = breakdown,
                         !.rationale_ops = rationale.rationale_ops,
                         !.creative_angle = rationale.creative_angle,
                         !.intro_basis = rationale.intro_basis]
        ELSE row : row \in rows}
  ELSE rows \cup {[intro_id |-> freshIntroId(rows), for_member_id |-> for,
                   to_member_id |-> to, tier |-> tier, score |-> score,
                   score_breakdown |-> breakdown,
                   rationale_ops |-> rationale.rationale_ops,
                   creative_angle |-> rationale.creative_angle,
                   intro_basis |-> rationale.intro_basis,
                   status |-> "draft"]}

\* FOREIGN KEY (for_member_id), (to_member_id) REFERENCES members: the insert
\* is rejected when either member is gone
\* a variant for a table intros without the foreign keys
noForeignKeys(for, to) == TRUE

foreignKeysHold(for, to) == for \in MemberIds /\ to \in MemberIds

(***************************************************************************)
(* The external capabilities.  An answer is what one call returns; ok =     *)
(* FALSE is a timeout, an API error or content that JSON.parse rejects      *)
(* (all three throw at the call site).                                      *)
(***************************************************************************)
\* the vector the embedding model computes for a member's profile text
EmbeddingOf(memberId) ==
  CASE memberId % 3 = 1 -> <<3, 4>>
    [] memberId % 3 = 2 -> <<5, 0>>
    [] OTHER -> <<-3, -4>>

\* openai.embeddings.create for a member's profile text: the vector, or an error
EmbedAnswers(memberId) ==
  { [ok |-> TRUE, embedding |-> EmbeddingOf(memberId)],
    [ok |-> FALSE, embedding |-> <<>>] }

\* researchComplementaryValue: failure, an object without the idea list and
\* the rating, or an object with MaxIdeas ideas and rating "high"
CollabAnswers ==
  { [ok |-> FALSE, complete |-> FALSE, research |-> NoResearch],
    [ok |-> TRUE, complete |-> FALSE,
     research |-> [present |-> TRUE, creative_collaboration_ideas |-> <<>>,
                   value_rating |-> ""]],
    [ok |-> TRUE, complete |-> TRUE,
     research |-> [present |-> TRUE,
                   creative_collaboration_ideas |-> [i \in 1..MaxIdeas |-> "idea"],
                   value_rating |-> "high"]] }

\* researchIndustryContext, researchCompaniesAndPeople: failure, an object
\* that lacks one of the keys the prompt asks for, or one that has them all
ResearchAnswers == {"failed", "incomplete", "complete"}

\* the Stage 3 completion: failure, or an object whose three fields are each
\* absent/empty ("") or a text; intro_basis may also be an object
SynthesisAnswers ==
  {[ok |-> FALSE, rationale_ops |-> "", creative_angle |-> "", intro_basis |-> "",
    introBasisIsObject |-> FALSE]}
  \cup {[ok |-> TRUE, rationale_ops |-> a, creative_angle |-> b, intro_basis |-> c,
         introBasisIsObject |-> FALSE] :
          a \in {"", "AI rationale"}, b \in {"", "AI angle"}, c \in {"", "AI openers"}}
  \cup {[ok |-> TRUE, rationale_ops |-> "AI rationale", creative_angle |-> "AI angle",
         intro_basis |-> "{\"1\":\"AI openers\"}", introBasisIsObject |-> TRUE]}

\* a variant without the required-field validation
synthesisUnchecked(answer) == answer.ok

\* if (!result.rationale_ops || !result.creative_angle || !result.intro_basis) throw
synthesisValid(answer) ==
  /\ answer.ok
  /\ answer.rationale_ops # ""
  /\ answer.creative_angle # ""
  /\ answer.intro_basis # ""

\* what generateMatchRationale returns for a Stage 3 answer: the parsed
\* result, or the fallback when the answer is missing or incomplete
rationaleFrom(answer, memberId1, memberId2) ==
  IF synthesisValid(answer)
  THEN [rationale_ops |-> answer.rationale_ops, creative_angle |-> answer.creative_angle,
        intro_basis |-> answer.intro_basis]
  ELSE SimpleRationale(memberId1, memberId2)

(***************************************************************************)
(* generateEmbedding(memberId): read the member, embed its profile, upsert  *)
(* the vector; every error is caught and logged.  The result is the new     *)
(* contents of table vectors.                                               *)
(***************************************************************************)
generateEmbedding(rows, memberId, answer) ==
  IF memberId \in MemberIds /\ answer.ok
  THEN upsertVector(rows, memberId, JSONstringify(answer.embedding))
  ELSE rows

(***************************************************************************)
(* Candidate ranking, shared by generate-top3 and generate-brainstorm.      *)
(***************************************************************************)
researchLimit == 10
top3Limit == 3

\* the ids of a set in ascending order (the order rows were inserted in)
RECURSIVE Ascending(_)
Ascending(S) ==
  IF S = {} THEN <<>>
  ELSE LET m == CHOOSE x \in S : \A y \in S : x <= y
       IN  <<m>> \o Ascending(S \ {m})

\* SELECT m.*, v.embedding_ops FROM members m JOIN vectors v ...
\* WHERE m.member_id != $1 AND m.consent = true
joined(vectorRows, memberId) ==
  [member_id |-> memberId, embedding_ops |-> vectorOf(vectorRows, memberId)]

candidateRows(memberRows, vectorRows, memberId) ==
  MapSeq(LAMBDA id : joined(vectorRows, id),
         Ascending({m.member_id : m \in {x \in memberRows :
                      /\ x.member_id # memberId
                      /\ x.consent
                      /\ hasVector(vectorRows, x.member_id)}}))

candidatesOf(memberId) == candidateRows(members, vectors, memberId)

\* the member ids of a list of rows
idsOf(rows) == {rows[k].member_id : k \in 1..Len(rows)}

pointsOf(scoreData) == [k \in 1..Len(scoreData.breakdown) |-> scoreData.breakdown[k].points]

\* one element of scored: the candidate with its score data
scoredEntry(candidateId, similarity, scoreData) ==
  [member_id |-> candidateId, score |-> scoreData.score,
   breakdown |-> pointsOf(scoreData), similarity |-> similarity,
   research |-> NoResearch, log |-> <<>>]

scoreWith(memberId, candidateId, similarity) ==
  scoredEntry(candidateId, similarity,
              calculateMatchScore(Profiles[memberId], Profiles[candidateId],
                                  similarity, NoResearch))

\* the catch of the scoring map: the candidate with score 0
failedEntry(candidateId) ==
  [member_id |-> candidateId, score |-> 0, breakdown |-> <<>>, similarity |-> 0,
   research |-> NoResearch, log |-> <<>>]

\* one step of the scoring map: parse the candidate's vector, compare, score;
\* JSON.parse throwing is caught and gives the candidate score 0
scoreParsed(memberId, memberEmbedding, candidateId, parsed) ==
  IF parsed.ok
  THEN scoreWith(memberId, candidateId, cosineSimilarity(memberEmbedding, parsed.value))
  ELSE failedEntry(candidateId)

scoreCandidate(memberId, memberEmbedding, candidate) ==
  scoreParsed(memberId, memberEmbedding, candidate.member_id,
              JSONparse(candidate.embedding_ops))

\* the re-scored candidate of the research loop
rescoredEntry(entry, research, scoreData) ==
  [entry EXCEPT !.score = scoreData.score, !.breakdown = pointsOf(scoreData),
                !.research = research]

rescoreCandidate(memberId, entry, research) ==
  rescoredEntry(entry, research,
                calculateMatchScore(Profiles[memberId], Profiles[entry.member_id],
                                    entry.similarity, research))

\* the log of a candidate: the stages awaited for it and how each ended
Logged(entry, stage, outcome) ==
  [entry EXCEPT !.log = Append(@, [stage |-> stage, outcome |-> outcome])]

outcomeOf(answer) ==
  IF ~answer.ok THEN "failed" ELSE IF answer.complete THEN "complete" ELSE "incomplete"

\* one round of the research loop: the candidate re-scored, or kept as it
\* is when the call failed
researched(memberId, entry, answer) ==
  IF answer.ok THEN rescoreCandidate(memberId, entry, answer.research) ELSE entry

\* Array.prototype.sort((a, b) => b.score - a.score): stable, descending
RECURSIVE insertByScore(_, _)
insertByScore(entry, sorted) ==
  IF sorted = <<>> THEN <<entry>>
  ELSE IF Head(sorted).score >= entry.score
       THEN <<Head(sorted)>> \o insertByScore(entry, Tail(sorted))
       ELSE <<entry>> \o sorted

RECURSIVE sortByScore(_)
sortByScore(q) ==
  IF q = <<>> THEN <<>>
  ELSE insertByScore(q[Len(q)], sortByScore(SubSeq(q, 1, Len(q) - 1)))

\* a variant that keeps the whole list
sliceAll(q, n) == q

\* Array.prototype.slice(0, n)
slice(q, n) == SubSeq(q, 1, Min(n, Len(q)))

\* scored.filter(s => s.score > 0), sorted by score
scoredOf(memberId, memberEmbedding, pool) ==
  [k \in 1..Len(pool) |-> scoreCandidate(memberId, memberEmbedding, pool[k])]

\* a variant that keeps every scored entry
anyMatch(s) == TRUE

validMatch(s) == s.score > 0

rankRows(memberId, memberEmbedding, candidates) ==
  sortByScore(FilterSeq(validMatch, scoredOf(memberId, memberEmbedding, candidates)))

\* a variant that ranks every member with a vector, the subject included, and
\* keeps the entries whatever their score
rankEveryone(memberId, memberEmbedding) ==
  sortByScore(scoredOf(memberId, memberEmbedding, candidateRows(members, vectors, 0)))

rankCandidates(memberId, memberEmbedding) ==
  rankRows(memberId, memberEmbedding, candidatesOf(memberId))

\* SELECT to_member_id FROM intros WHERE for_member_id = $1 AND tier = 'top3'
existingTop3(memberId) ==
  {row.to_member_id : row \in {x \in intros : x.for_member_id = memberId /\ x.tier = "top3"}}

\* filtered.filter(m => !top3MemberIds.has(m.member_id))
excludeTop3(filtered, top3MemberIds) ==
  LET Other(m) == m.member_id \notin top3MemberIds IN FilterSeq(Other, filtered)

(***************************************************************************)
(* Scorer harness: calculateMatchScore applied to every pair of profiles,   *)
(* a range of similarities and every research object of the bounds.         *)
(***************************************************************************)
Similarities == {-1000, -500, -26, -25, 0, 24, 25, 500, 1000}

Ratings == {"", "low", "Medium", "high", "unclear"}

Ideas(n) == [i \in 1..n |-> "idea"]

ResearchObjects ==
  {[present |-> TRUE, creative_collaboration_ideas |-> Ideas(n), value_rating |-> r] :
     n \in 0..MaxIdeas, r \in Ratings}

Idle == [phase |-> "idle"]

NoDelete == [pc |-> "idle"]

NoBulk == [pc |-> "idle"]

IdleRun == [pc |-> "idle"]

(***************************************************************************)
(* Admin sessions.  req.session.adminId is set by a successful login and    *)
(* the session is destroyed by logout.  loggedIn is history: a login has    *)
(* succeeded in the session and no logout has happened since.  response is  *)
(* the status of the last answer to the session, listed the member ids of   *)
(* the last listing it received; refused and loggedOut are history of the   *)
(* browser: an admin request of it was answered 401, it has logged out.     *)
(***************************************************************************)
MaxSessions == 2

SessionIds == 1..MaxSessions

\* the session the event's admin uses
AdminSession == 1

NoAdmin == ""

NoSession ==
  [adminId |-> NoAdmin, loggedIn |-> FALSE, response |-> 0, listed |-> {},
   refused |-> FALSE, loggedOut |-> FALSE]

NoSessions == [s \in SessionIds |-> NoSession]

\* bcrypt.hash and bcrypt.compare: the hash is not the password, and compare
\* holds for the password that was hashed only
bcryptHash(password) == "$2b$10$" \o password

bcryptCompare(password, hash) == bcryptHash(password) = hash

\* table admin_users: the admin / admin account
admin_users ==
  {[admin_id |-> "admin-1", email |-> "admin", password_hash |-> bcryptHash("admin")]}

\* request bodies of POST /api/admin/login
Credentials == [email : {"admin", "guest"}, password : {"admin", "guess"}]

\* a variant that takes every session for an admin's
anySession(s) == TRUE

\* !req.session.adminId is false
authenticated(s) == sessions[s].adminId # NoAdmin

\* return res.status(401).json({ error: 'Not authenticated' })
NotAuthenticated(s) ==
  /\ sessions' = [sessions EXCEPT ![s].response = 401, ![s].refused = TRUE]
  /\ UNCHANGED <<members, vectors, intros, pending, runs, nextMember, deleting,
                 ops, answered, bulk, probe>>

\* the session after req.session.adminId = admin.admin_id
loggedIn(session, admin) ==
  [session EXCEPT !.adminId = admin.admin_id, !.loggedIn = TRUE, !.response = 200]

\* POST /api/admin/login
Login(s, body) ==
  LET found == {a \in admin_users : a.email = body.email}
  IN  /\ sessions' =
           IF found = {} THEN [sessions EXCEPT ![s].response = 401]
           ELSE LET admin == CHOOSE a \in found : TRUE
                IN  IF ~bcryptCompare(body.password, admin.password_hash)
                    THEN [sessions EXCEPT ![s].response = 401]
                    ELSE [sessions EXCEPT ![s] = loggedIn(@, admin)]
      /\ UNCHANGED <<members, vectors, intros, pending, runs, nextMember, deleting,
                     ops, answered, bulk, probe>>

\* POST /api/admin/logout: req.session.destroy()
Logout(s) ==
  /\ sessions' = [sessions EXCEPT ![s] = [NoSession EXCEPT !.refused = sessions[s].refused,
                                                          !.loggedOut = TRUE]]
  /\ UNCHANGED <<members, vectors, intros, pending, runs, nextMember, deleting,
                 ops, answered, bulk, probe>>

EmptyStore ==
  /\ members = {}
  /\ vectors = EmptyBag
  /\ intros = {}
  /\ pending = {}
  /\ runs = [r \in RunIds |-> IdleRun]
  /\ nextMember = 1
  /\ deleting = NoDelete
  /\ ops = 0
  /\ answered = FALSE
  /\ bulk = NoBulk

InitScore == EmptyStore /\ probe = Idle /\ sessions = NoSessions

ScoreCall ==
  /\ probe.phase = "idle"
  /\ \E a \in 1..Len(Profiles), b \in 1..Len(Profiles), s \in Similarities,
        r \in ResearchObjects \cup {NoResearch} :
       probe' = [phase |-> "scored", member1 |-> a, member2 |-> b, similarity |-> s,
                 research |-> r,
                 result |-> calculateMatchScore(Profiles[a], Profiles[b], s, r)]
  /\ UNCHANGED storeVars

ScoreReturn ==
  /\ probe.phase = "scored"
  /\ probe' = Idle
  /\ UNCHANGED storeVars

\* a stored vector that was cut short: JSON.parse throws on it
MalformedVector == "[3,4"

\* the candidate rows of a pool: the vector generateEmbedding stored, or the
\* malformed text for the candidates in bad
poolRows(pool, bad) ==
  MapSeq(LAMBDA id : [member_id |-> id,
                      embedding_ops |-> IF id \in bad THEN MalformedVector
                                        ELSE JSONstringify(EmbeddingOf(id))],
         Ascending(pool))

\* the scoring, filtering and sorting of a run for a subject over every pool
\* of the other profiles and every choice of malformed vectors
RankCall ==
  /\ probe.phase = "idle"
  /\ \E a \in 1..Len(Profiles) :
       \E pool \in SUBSET ((1..Len(Profiles)) \ {a}) :
         \E bad \in SUBSET pool :
           probe' = [phase |-> "ranked", subject |-> a, candidates |-> poolRows(pool, bad),
                     result |-> rankRows(a, EmbeddingOf(a), poolRows(pool, bad))]
  /\ UNCHANGED storeVars

RankReturn ==
  /\ probe.phase = "ranked"
  /\ probe' = Idle
  /\ UNCHANGED storeVars

\* phrases as the items of needs and assets lists
Phrases ==
  {"marketing", "seo", "sales", "customers", "more customers", "crm",
   "Software", "software tools", "legal", "law", "funding"}

\* what each rule of matchesNeedAsset and the function itself say of a pair
verdictsOf(need, asset) ==
  [direct |-> directMatch(need, asset), cluster |-> clusterMatch(need, asset),
   pattern |-> patternMatch(need, asset), result |-> matchesNeedAsset(need, asset)]

\* matchesNeedAsset applied to a pair of phrases and to the swapped pair
MatchCall ==
  /\ probe.phase = "idle"
  /\ \E x \in Phrases, y \in Phrases :
       probe' = [phase |-> "matched", need |-> x, asset |-> y,
                 forward |-> verdictsOf(x, y), backward |-> verdictsOf(y, x)]
  /\ UNCHANGED storeVars

MatchReturn ==
  /\ probe.phase = "matched"
  /\ probe' = Idle
  /\ UNCHANGED storeVars

\* the research loop of generate-top3 over the candidates kept for research:
\* candidate k re-scored with the k-th answer, or kept as it is
researchedCandidates(memberId, topCandidates, answers) ==
  [k \in 1..Len(topCandidates) |->
     researched(memberId,
                Logged(topCandidates[k], "CollaborationResearch", outcomeOf(answers[k])),
                answers[k])]

\* the outcomes of researchComplementaryValue in a selection: those of
\* CollabAnswers, and an object with the rating "Medium" and no idea list
SelectAnswers ==
  CollabAnswers
    \cup {[ok |-> TRUE, complete |-> FALSE,
           research |-> [present |-> TRUE, creative_collaboration_ideas |-> <<>>,
                         value_rating |-> "Medium"]]}

\* the selection of a generate-top3 run for a subject over a pool of the other
\* profiles, for every outcome of the research calls
SelectCall ==
  /\ probe.phase = "idle"
  /\ \E a \in 1..Len(Profiles) :
       \E pool \in SUBSET ((1..Len(Profiles)) \ {a}) :
         \E filtered \in {rankRows(a, EmbeddingOf(a), poolRows(pool, {}))} :
           \E answers \in [1..Min(researchLimit, Len(filtered)) -> SelectAnswers] :
             \E after \in {researchedCandidates(a, slice(filtered, researchLimit), answers)} :
               probe' = [phase |-> "selected", subject |-> a,
                         pool |-> Ascending(pool), filtered |-> filtered,
                         researchedCandidates |-> after,
                         top3 |-> slice(sortByScore(after), top3Limit)]
  /\ UNCHANGED storeVars

SelectReturn ==
  /\ probe.phase = "selected"
  /\ probe' = Idle
  /\ UNCHANGED storeVars

\* the need/asset pairs of two profiles, in either direction, that
\* matchesNeedAsset accepts: the pairs countMatches counts
needAssetPairs(member1, member2) ==
  countMatches(parseList(member1.assets), parseList(member2.needs))
    + countMatches(parseList(member2.assets), parseList(member1.needs))

\* generateSimpleRationale applied to a pair of profiles, next to what the
\* matcher finds for the pair
RationaleCall ==
  /\ probe.phase = "idle"
  /\ \E a \in 1..Len(Profiles), b \in 1..Len(Profiles) :
       /\ a # b
       /\ probe' = [phase |-> "rationale", member1 |-> a, member2 |-> b,
                    rationale |-> SimpleRationale(a, b),
                    matches |-> simpleMatches(Profiles[a], Profiles[b]),
                    pairs |-> needAssetPairs(Profiles[a], Profiles[b])]
  /\ UNCHANGED storeVars

RationaleReturn ==
  /\ probe.phase = "rationale"
  /\ probe' = Idle
  /\ UNCHANGED storeVars

NextScore ==
  \/ ScoreCall \/ ScoreReturn \/ RankCall \/ RankReturn \/ MatchCall \/ MatchReturn
  \/ SelectCall \/ SelectReturn \/ RationaleCall \/ RationaleReturn

SpecScore == InitScore /\ [][NextScore]_vars

(***************************************************************************)
(* Registration and the background embedding it starts.                     *)
(***************************************************************************)
\* POST /api/register: insert the member, start generateEmbedding without
\* awaiting it, answer.  The handler reads eleven fields of the body and
\* consent is not one of them, so the INSERT names no consent column and the
\* row takes the column's DEFAULT true whatever the body said.  declined
\* records the body's answer; no statement reads it.
Register(consent) ==
  /\ nextMember <= MaxMembers
  /\ members' = members \cup
       {[member_id |-> nextMember, consent |-> TRUE, declined |-> ~consent]}
  /\ pending' = pending \cup {nextMember}
  /\ nextMember' = nextMember + 1
  /\ UNCHANGED <<vectors, intros, runs, deleting, ops, answered, bulk, probe, sessions>>

\* the fire-and-forget generateEmbedding of a registration completes
BackgroundEmbed(id) ==
  /\ id \in pending
  /\ \E answer \in EmbedAnswers(id) : vectors' = generateEmbedding(vectors, id, answer)
  /\ pending' = pending \ {id}
  /\ UNCHANGED <<members, intros, runs, nextMember, deleting, ops, answered, bulk, probe, sessions>>

(***************************************************************************)
(* POST /api/generate-top3/:memberId and POST /api/generate-brainstorm/     *)
(* :memberId.  A step runs from one await of an external capability to the  *)
(* next; the database statements between two such awaits belong to the      *)
(* step.  pc names the call the handler is waiting for.                     *)
(***************************************************************************)
Tiers == {"top3", "brainstorm"}

NoLast == [to |-> 0, log |-> <<>>, written |-> FALSE]

\* the candidates stored in a tier for a subject
keysOf(rows, for, tier) ==
  {row.to_member_id : row \in {x \in rows : x.for_member_id = for /\ x.tier = tier}}

\* the handler has answered; keys and pool are history (the tier's stored
\* candidates at the answer, and the candidates the request read)
doneRun(run, status, pool) ==
  [pc |-> "done", tier |-> run.tier, subject |-> run.subject, response |-> status,
   prior |-> run.prior, pool |-> pool, keys |-> keysOf(intros, run.subject, run.tier)]

\* const memberEmbedding = JSON.parse(memberVector.embedding_ops); a throw
\* reaches the handler's outer catch, which answers 500
parsedRun(run, parsed) ==
  IF parsed.ok
  THEN [pc |-> "load", tier |-> run.tier, subject |-> run.subject, prior |-> run.prior,
        memberEmbedding |-> parsed.value]
  ELSE doneRun(run, 500, {})

\* the request arrives: look the member up, read its vector
StartRun(r, tier, memberId) ==
  /\ runs[r].pc = "idle"
  /\ r > 1 => runs[r - 1].pc # "idle"
  /\ Cardinality({q \in RunIds : runs[q].pc \notin {"idle", "done"}}) < MaxInFlight
  /\ LET run == [pc |-> "embed", tier |-> tier, subject |-> memberId,
                 prior |-> {q \in RunIds : runs[q].pc = "done"}]
     IN  runs' = [runs EXCEPT ![r] =
           IF memberId \notin MemberIds THEN doneRun(run, 404, {})
           ELSE IF hasVector(vectors, memberId)
                THEN parsedRun(run, JSONparse(vectorOf(vectors, memberId)))
                ELSE run]
  /\ UNCHANGED <<members, vectors, intros, pending, nextMember, deleting, ops, answered, bulk, probe, sessions>>

\* no vector: await generateEmbedding(memberId), read the vector again
RunEmbed(r) ==
  /\ runs[r].pc = "embed"
  /\ \E answer \in EmbedAnswers(runs[r].subject) :
       /\ vectors' = generateEmbedding(vectors, runs[r].subject, answer)
       /\ runs' = [runs EXCEPT ![r] =
            IF hasVector(vectors', runs[r].subject)
            THEN parsedRun(@, JSONparse(vectorOf(vectors', runs[r].subject)))
            ELSE doneRun(@, 500, {})]
  /\ UNCHANGED <<members, intros, pending, nextMember, deleting, ops, answered, bulk, probe, sessions>>

\* read the candidates, score, filter and sort them; top3 keeps the first
\* researchLimit for research, brainstorm drops the existing top3 ids
\* a variant that starts every intro at Stage 1
stageOneFirst(tier) == "industry"

\* a variant that researches the match again in the intro loop
researchAgain(tier) == "collab"

\* the first stage awaited for a match of the final list
firstStage(tier) == IF tier = "top3" THEN "industry" ELSE "collab"

\* the list the handler goes on with
queueOf(run, filtered) ==
  IF run.tier = "top3" THEN slice(filtered, researchLimit)
  ELSE excludeTop3(filtered, existingTop3(run.subject))

\* the consenting members other than the subject that have no vector: the
\* JOIN of the candidate query has no row for them
withoutVector(memberId) ==
  {m.member_id : m \in {x \in members :
     /\ x.member_id # memberId
     /\ x.consent
     /\ ~hasVector(vectors, x.member_id)}}

\* skipped is history: the members withoutVector when the candidates were
\* read.  The handler calls generateEmbedding for the subject only (RunEmbed)
\* and makes no call for any of them
loadedRun(run, pool, queue) ==
  [pc |-> IF queue = <<>> THEN "respond"
          ELSE IF run.tier = "top3" THEN "research" ELSE firstStage(run.tier),
   tier |-> run.tier, subject |-> run.subject, prior |-> run.prior,
   pool |-> idsOf(pool), skipped |-> withoutVector(run.subject),
   queue |-> queue, i |-> 1, last |-> NoLast]

RunLoad(r) ==
  /\ runs[r].pc = "load"
  /\ runs' = [runs EXCEPT ![r] =
       loadedRun(@, candidatesOf(@.subject),
                 queueOf(@, rankCandidates(@.subject, @.memberEmbedding)))]
  /\ UNCHANGED <<members, vectors, intros, pending, nextMember, deleting, ops, answered, bulk, probe, sessions>>

\* top3 research loop: Stage 0 for candidate i, re-score with the research;
\* a failure keeps the candidate with its first score.  After the last
\* candidate: sort again, keep the first top3Limit, start the first intro
researchedRun(run, queue) ==
  IF run.i < Len(queue)
  THEN [run EXCEPT !.queue = queue, !.i = run.i + 1]
  ELSE [run EXCEPT !.queue = slice(sortByScore(queue), top3Limit),
                   !.i = 1, !.pc = "industry"]

RunResearch(r) ==
  /\ runs[r].pc = "research"
  /\ \E answer \in CollabAnswers :
       /\ runs' = [runs EXCEPT ![r] =
            researchedRun(@, [@.queue EXCEPT ![runs[r].i] =
              researched(runs[r].subject,
                         Logged(@, "CollaborationResearch", outcomeOf(answer)),
                         answer)])]
       /\ answered' = (answered \/ answer.ok)
  /\ UNCHANGED <<members, vectors, intros, pending, nextMember, deleting, ops, bulk, probe, sessions>>

\* a variant in which a match that was not stored ends the loop
advanceOrStop(run, last) ==
  IF run.i < Len(run.queue) /\ last.written
  THEN [run EXCEPT !.i = run.i + 1, !.pc = firstStage(run.tier), !.last = last]
  ELSE [run EXCEPT !.pc = "respond", !.last = last]

\* after match i: the next match, or the end of the loop
advance(run, last) ==
  IF run.i < Len(run.queue)
  THEN [run EXCEPT !.i = run.i + 1, !.pc = firstStage(run.tier), !.last = last]
  ELSE [run EXCEPT !.pc = "respond", !.last = last]

\* the upsert of match i with the given rationale; a rejected insert is
\* caught and logged, and the loop continues
StoreMatch(r, entry, rationale) ==
  LET run == runs[r]
      accepted == foreignKeysHold(run.subject, entry.member_id)
  IN  /\ intros' = IF accepted
                   THEN upsertIntro(intros, run.subject, entry.member_id, run.tier,
                                    entry.score,
                                    [breakdown |-> entry.breakdown,
                                     complementaryValueResearch |-> entry.research],
                                    rationale)
                   ELSE intros
      /\ runs' = [runs EXCEPT ![r] =
           advance(run, [to |-> entry.member_id, log |-> entry.log,
                         written |-> accepted, rationale |-> rationale])]

\* the per-match catch of the loop: nothing is stored for match i
SkipMatch(r, entry) ==
  /\ intros' = intros
  /\ runs' = [runs EXCEPT ![r] =
       advance(runs[r], [to |-> entry.member_id, log |-> entry.log, written |-> FALSE])]

\* a variant that swaps the two members
fallbackSwapped(r, entry) == SimpleRationale(entry.member_id, runs[r].subject)

FallbackFor(r, entry) == SimpleRationale(runs[r].subject, entry.member_id)

\* brainstorm Stage 0 for match i, inside the per-match try
RunCollab(r) ==
  /\ runs[r].pc = "collab"
  /\ \E answer \in CollabAnswers :
       LET run == runs[r]
           entry == Logged(run.queue[run.i], "CollaborationResearch", outcomeOf(answer))
       IN  /\ IF answer.ok
              THEN /\ runs' = [runs EXCEPT ![r] =
                        [run EXCEPT !.queue[run.i] = [entry EXCEPT !.research = answer.research],
                                    !.pc = "industry"]]
                   /\ intros' = intros
              ELSE SkipMatch(r, entry)
           /\ answered' = (answered \/ answer.ok)
  /\ UNCHANGED <<members, vectors, pending, nextMember, deleting, ops, bulk, probe, sessions>>

\* generateMatchRationale, Stage 1
RunIndustry(r) ==
  /\ runs[r].pc = "industry"
  /\ \E answer \in ResearchAnswers :
       LET run == runs[r]
           entry == Logged(run.queue[run.i], "IndustryResearch", answer)
       IN  /\ IF answer # "failed"
              THEN /\ runs' = [runs EXCEPT ![r] =
                        [run EXCEPT !.queue[run.i] = entry, !.pc = "entity"]]
                   /\ intros' = intros
              ELSE StoreMatch(r, entry, FallbackFor(r, entry))
           /\ answered' = (answered \/ answer # "failed")
  /\ UNCHANGED <<members, vectors, pending, nextMember, deleting, ops, bulk, probe, sessions>>

\* generateMatchRationale, Stage 2, and the construction of the Stage 3
\* prompt, which reads complementaryValueResearch.value_rating and so throws
\* when the match carries no research
RunEntity(r) ==
  /\ runs[r].pc = "entity"
  /\ \E answer \in ResearchAnswers :
       LET run == runs[r]
           entry == Logged(run.queue[run.i], "EntityResearch", answer)
       IN  /\ IF answer # "failed" /\ entry.research.present
              THEN /\ runs' = [runs EXCEPT ![r] =
                        [run EXCEPT !.queue[run.i] = entry, !.pc = "synthesis"]]
                   /\ intros' = intros
              ELSE StoreMatch(r, entry, FallbackFor(r, entry))
           /\ answered' = (answered \/ answer # "failed")
  /\ UNCHANGED <<members, vectors, pending, nextMember, deleting, ops, bulk, probe, sessions>>

\* generateMatchRationale, Stage 3: validate the three fields, else fall back
RunSynthesis(r) ==
  /\ runs[r].pc = "synthesis"
  /\ \E answer \in SynthesisAnswers :
       LET run == runs[r]
           outcome == IF ~answer.ok THEN "failed"
                      ELSE IF synthesisValid(answer) THEN "complete" ELSE "incomplete"
           entry == Logged(run.queue[run.i], "Synthesis", outcome)
       IN  /\ StoreMatch(r, entry, rationaleFrom(answer, run.subject, entry.member_id))
           /\ answered' = (answered \/ answer.ok)
  /\ UNCHANGED <<members, vectors, pending, nextMember, deleting, ops, bulk, probe, sessions>>

\* res.json({ success: true, count }) after the loop
Respond(r) ==
  /\ runs[r].pc = "respond"
  /\ runs' = [runs EXCEPT ![r] = doneRun(@, 200, @.pool)]
  /\ UNCHANGED <<members, vectors, intros, pending, nextMember, deleting, ops, answered, bulk, probe, sessions>>

(***************************************************************************)
(* Acknowledgment and the admin requests (from a logged-in admin session).  *)
(***************************************************************************)
\* POST /api/acknowledge-intro/:introId
Acknowledge(introId) ==
  /\ ops < MaxOps
  /\ \E row \in intros : row.intro_id = introId
  /\ intros' = {IF row.intro_id = introId THEN [row EXCEPT !.status = "acknowledged"]
                ELSE row : row \in intros}
  /\ ops' = ops + 1
  /\ UNCHANGED <<members, vectors, pending, runs, nextMember, deleting, answered, bulk, probe, sessions>>

\* POST /api/admin/reset-matches
ResetMatches(s) ==
  IF ~authenticated(s) THEN NotAuthenticated(s)
  ELSE /\ ops < MaxOps
       /\ intros' = {}
       /\ ops' = ops + 1
       /\ UNCHANGED <<members, vectors, pending, runs, nextMember, deleting, answered, bulk, probe, sessions>>

\* DELETE /api/admin/member/:memberId, first statement: the member's intros
DeleteIntros(s, memberId) ==
  IF ~authenticated(s) THEN NotAuthenticated(s)
  ELSE /\ ops < MaxOps
       /\ deleting.pc = "idle"
       /\ intros' = {row \in intros : row.for_member_id # memberId /\ row.to_member_id # memberId}
       /\ deleting' = [pc |-> "vectors", memberId |-> memberId]
       /\ ops' = ops + 1
       /\ UNCHANGED <<members, vectors, pending, runs, nextMember, answered, bulk, probe, sessions>>

\* second statement: the member's vector
DeleteVectors ==
  /\ deleting.pc = "vectors"
  /\ vectors' = deleteVector(vectors, deleting.memberId)
  /\ deleting' = [deleting EXCEPT !.pc = "member"]
  /\ UNCHANGED <<members, intros, pending, runs, nextMember, ops, answered, bulk, probe, sessions>>

\* third statement: the member row; ON DELETE CASCADE removes the vectors and
\* intros that still reference it
DeleteMember ==
  /\ deleting.pc = "member"
  /\ members' = {m \in members : m.member_id # deleting.memberId}
  /\ vectors' = deleteVector(vectors, deleting.memberId)
  /\ intros' = {row \in intros : /\ row.for_member_id # deleting.memberId
                                 /\ row.to_member_id # deleting.memberId}
  /\ deleting' = NoDelete
  /\ UNCHANGED <<pending, runs, nextMember, ops, answered, bulk, probe, sessions>>

\* DELETE /api/admin/members/all: the three tables, one statement each
DeleteAll(s) ==
  IF ~authenticated(s) THEN NotAuthenticated(s)
  ELSE /\ ops < MaxOps
       /\ intros' = {}
       /\ vectors' = EmptyBag
       /\ members' = {}
       /\ ops' = ops + 1
       /\ UNCHANGED <<pending, runs, nextMember, deleting, answered, bulk, probe, sessions>>

\* GET /api/admin/members: the rows of table members
AdminMembers(s) ==
  IF ~authenticated(s) THEN NotAuthenticated(s)
  ELSE /\ sessions' = [sessions EXCEPT ![s].response = 200, ![s].listed = MemberIds]
       /\ UNCHANGED <<members, vectors, intros, pending, runs, nextMember, deleting,
                      ops, answered, bulk, probe>>

(***************************************************************************)
(* POST /api/admin/generate-all-embeddings, for an authenticated admin: one *)
(* generateEmbedding after the other for the members without a vector.      *)
(***************************************************************************)
\* SELECT m.member_id ... FROM members m LEFT JOIN vectors v ...
\* WHERE v.member_id IS NULL
membersWithoutEmbeddings ==
  Ascending({m.member_id : m \in {x \in members : ~hasVector(vectors, x.member_id)}})

\* the request arrives: read the members without a vector; with none of them
\* the handler answers at once
BulkStart(s) ==
  IF ~authenticated(s) THEN NotAuthenticated(s)
  ELSE /\ bulk.pc = "idle"
       /\ ops < MaxOps
       /\ ops' = ops + 1
       /\ bulk' = IF membersWithoutEmbeddings = <<>>
                  THEN [pc |-> "done", generated |-> 0, total |-> 0,
                        todo |-> <<>>, written |-> {}, overwrote |-> {}]
                  ELSE [pc |-> "embed", todo |-> membersWithoutEmbeddings, i |-> 1,
                        successCount |-> 0, failCount |-> 0, results |-> <<>>,
                        written |-> {}, overwrote |-> {}]
       /\ UNCHANGED <<members, vectors, intros, pending, runs, nextMember, deleting, answered, probe, sessions>>

\* one round of the loop's try block: generateEmbedding returns normally
\* whatever happened in it, so the round counts a success.  written and
\* overwrote are history: the members whose vector this request stored, and
\* those among them that had a vector by then
embeddedRound(run, memberId, stored, wasThere) ==
  [run EXCEPT !.successCount = @ + 1,
              !.results = Append(@, [member_id |-> memberId, status |-> "success"]),
              !.written = IF stored THEN @ \cup {memberId} ELSE @,
              !.overwrote = IF stored /\ wasThere THEN @ \cup {memberId} ELSE @]

\* after the last member: res.json with the counts
nextRound(run) ==
  IF run.i < Len(run.todo) THEN [run EXCEPT !.i = @ + 1]
  ELSE [pc |-> "done", generated |-> run.successCount, failed |-> run.failCount,
        total |-> Len(run.todo), results |-> run.results,
        todo |-> run.todo, written |-> run.written, overwrote |-> run.overwrote]

BulkEmbed ==
  /\ bulk.pc = "embed"
  /\ \E answer \in EmbedAnswers(bulk.todo[bulk.i]) :
       /\ vectors' = generateEmbedding(vectors, bulk.todo[bulk.i], answer)
       /\ bulk' = nextRound(embeddedRound(bulk, bulk.todo[bulk.i],
                                          bulk.todo[bulk.i] \in MemberIds /\ answer.ok,
                                          hasVector(vectors, bulk.todo[bulk.i])))
  /\ UNCHANGED <<members, intros, pending, runs, nextMember, deleting, ops, answered, probe, sessions>>

(***************************************************************************)
(* The server.                                                              *)
(***************************************************************************)
\* the empty tables, and the admin logged in on the admin's browser as on the
\* day of the event; the other sessions are new
AdminLoggedIn ==
  [NoSessions EXCEPT ![AdminSession] = loggedIn(@, CHOOSE a \in admin_users : TRUE)]

Init == EmptyStore /\ probe = Idle /\ sessions = AdminLoggedIn

\* the attendees' requests, the admin's requests on matches and members, and
\* the completions of what they started
Requests ==
  \/ \E id \in Ids : BackgroundEmbed(id)
  \/ \E r \in RunIds, tier \in Tiers, id \in Ids : StartRun(r, tier, id)
  \/ \E r \in RunIds : RunEmbed(r)
  \/ \E r \in RunIds : RunLoad(r)
  \/ \E r \in RunIds : RunResearch(r)
  \/ \E r \in RunIds : RunCollab(r)
  \/ \E r \in RunIds : RunIndustry(r)
  \/ \E r \in RunIds : RunEntity(r)
  \/ \E r \in RunIds : RunSynthesis(r)
  \/ \E r \in RunIds : Respond(r)
  \/ \E n \in 1..(2 * MaxMembers * MaxMembers) : Acknowledge(n)
  \/ ResetMatches(AdminSession)
  \/ \E id \in Ids : DeleteIntros(AdminSession, id)
  \/ DeleteVectors
  \/ DeleteMember

\* registrations whose body carries consent = true, and the admin's bulk
\* embedding
Next == Register(TRUE) \/ BulkStart(AdminSession) \/ BulkEmbed \/ Requests

Spec == Init /\ [][Next]_vars

\* registrations with either answer to the consent question, which no handler
\* reads; the bulk embedding stays out of this specification
NextConsent == (\E consent \in BOOLEAN : Register(consent)) \/ Requests

SpecConsent == Init /\ [][NextConsent]_vars

(***************************************************************************)
(* The admin's requests from any browser.  The store holds three members,   *)
(* the first two with a vector, and the match record of member 1 with       *)
(* member 2; no session is logged in.                                       *)
(***************************************************************************)
InitAdmin ==
  /\ members = {[member_id |-> id, consent |-> TRUE, declined |-> FALSE] : id \in 1..3}
  /\ vectors = SetToBag({[member_id |-> id, embedding_ops |-> JSONstringify(EmbeddingOf(id))] :
                           id \in 1..2})
  /\ intros = LET entry == scoreWith(1, 2, cosineSimilarity(EmbeddingOf(1), EmbeddingOf(2)))
              IN  upsertIntro({}, 1, 2, "top3", entry.score,
                              [breakdown |-> entry.breakdown,
                               complementaryValueResearch |-> NoResearch],
                              SimpleRationale(1, 2))
  /\ pending = {}
  /\ runs = [r \in RunIds |-> IdleRun]
  /\ nextMember = 4
  /\ deleting = NoDelete
  /\ ops = 0
  /\ answered = FALSE
  /\ bulk = NoBulk
  /\ probe = Idle
  /\ sessions = NoSessions

\* an admin request of session s as it arrives
AdminRequest(s) ==
  \/ AdminMembers(s)
  \/ ResetMatches(s)
  \/ \E id \in 1..3 : DeleteIntros(s, id)
  \/ DeleteAll(s)
  \/ BulkStart(s)

NextAdmin ==
  \/ \E s \in SessionIds, body \in Credentials : Login(s, body)
  \/ \E s \in SessionIds : Logout(s)
  \/ \E s \in SessionIds : AdminMembers(s)
  \/ \E s \in SessionIds : ResetMatches(s)
  \/ \E s \in SessionIds, id \in 1..3 : DeleteIntros(s, id)
  \/ DeleteVectors
  \/ DeleteMember
  \/ \E s \in SessionIds : DeleteAll(s)
  \/ \E s \in SessionIds : BulkStart(s)
  \/ BulkEmbed

SpecAdmin == InitAdmin /\ [][NextAdmin]_vars

(***************************************************************************)
(* One generation request over a pool: the store after PoolSize             *)
(* registrations whose background embeddings succeeded, one request of      *)
(* either tier for any of the members, and the admin (logged in) deleting   *)
(* one of the members meanwhile.                                            *)
(***************************************************************************)
PoolSize == 3

InitPool ==
  /\ members = {[member_id |-> id, consent |-> TRUE, declined |-> FALSE] : id \in 1..PoolSize}
  /\ vectors = SetToBag({[member_id |-> id, embedding_ops |-> JSONstringify(EmbeddingOf(id))] :
                           id \in 1..PoolSize})
  /\ intros = {}
  /\ pending = {}
  /\ runs = [r \in RunIds |-> IdleRun]
  /\ nextMember = PoolSize + 1
  /\ deleting = NoDelete
  /\ ops = 0
  /\ answered = FALSE
  /\ bulk = NoBulk
  /\ probe = Idle
  /\ sessions = AdminLoggedIn

NextPool ==
  \/ \E tier \in Tiers, id \in 1..PoolSize : StartRun(1, tier, id)
  \/ RunLoad(1)
  \/ RunResearch(1)
  \/ RunCollab(1)
  \/ RunIndustry(1)
  \/ RunEntity(1)
  \/ RunSynthesis(1)
  \/ Respond(1)
  \/ \E id \in 2..PoolSize : DeleteIntros(AdminSession, id)
  \/ DeleteVectors
  \/ DeleteMember

SpecPool == InitPool /\ [][NextPool]_vars

(***************************************************************************)
(* A second generate-top3 request for member 1.  The first one ran when     *)
(* members 1 to 4 were registered, every text-generation call of it failed, *)
(* and it stored the three fallback records; member 5 registered and was    *)
(* embedded afterwards.                                                     *)
(***************************************************************************)
firstRunRecords ==
  LET Stored(rows, to) ==
        LET entry == scoreWith(1, to, cosineSimilarity(EmbeddingOf(1), EmbeddingOf(to)))
        IN  upsertIntro(rows, 1, to, "top3", entry.score,
                        [breakdown |-> entry.breakdown,
                         complementaryValueResearch |-> NoResearch],
                        SimpleRationale(1, to))
  IN  Stored(Stored(Stored({}, 2), 3), 4)

InitRerun ==
  /\ members = {[member_id |-> id, consent |-> TRUE, declined |-> FALSE] :
                  id \in 1..Len(Profiles)}
  /\ vectors = SetToBag({[member_id |-> id, embedding_ops |-> JSONstringify(EmbeddingOf(id))] :
                           id \in 1..Len(Profiles)})
  /\ intros = firstRunRecords
  /\ pending = {}
  /\ runs = [r \in RunIds |-> IdleRun]
  /\ nextMember = Len(Profiles) + 1
  /\ deleting = NoDelete
  /\ ops = 0
  /\ answered = FALSE
  /\ bulk = NoBulk
  /\ probe = Idle
  /\ sessions = NoSessions

NextRerun ==
  \/ StartRun(1, "top3", 1)
  \/ RunLoad(1)
  \/ RunResearch(1)
  \/ RunIndustry(1)
  \/ RunEntity(1)
  \/ RunSynthesis(1)
  \/ Respond(1)

SpecRerun == InitRerun /\ [][NextRerun]_vars

(***************************************************************************)
(* One generation request and the progress the code guarantees.  Member 1   *)
(* is registered without a vector (its background embedding failed) and     *)
(* member 2 has one.  Every text-generation call is raced against a timer   *)
(* (Promise.race with setTimeout, 60 or 90 seconds), so the step that       *)
(* awaits it always happens; the statements on the store and the response   *)
(* are the handler's own.  The embedding call of generateEmbedding is       *)
(* awaited bare, nothing in the code ends the wait, so RunEmbed has no      *)
(* fairness: the call may never return.                                     *)
(***************************************************************************)
InitLive ==
  /\ members = {[member_id |-> id, consent |-> TRUE, declined |-> FALSE] : id \in 1..2}
  /\ vectors = SetToBag({[member_id |-> 2, embedding_ops |-> JSONstringify(EmbeddingOf(2))]})
  /\ intros = {}
  /\ pending = {}
  /\ runs = [r \in RunIds |-> IdleRun]
  /\ nextMember = 3
  /\ deleting = NoDelete
  /\ ops = 0
  /\ answered = FALSE
  /\ bulk = NoBulk
  /\ probe = Idle
  /\ sessions = NoSessions

NextLive ==
  \/ \E tier \in Tiers, id \in 1..2 : StartRun(1, tier, id)
  \/ RunEmbed(1)
  \/ RunLoad(1)
  \/ RunResearch(1)
  \/ RunCollab(1)
  \/ RunIndustry(1)
  \/ RunEntity(1)
  \/ RunSynthesis(1)
  \/ Respond(1)

\* RunLoad(1) is enabled exactly when the request is at "load" and leaves that
\* position, so its weak fairness is written as the position not lasting
TimeBoxed ==
  /\ []<>(runs[1].pc # "load")
  /\ WF_vars(RunResearch(1))
  /\ WF_vars(RunCollab(1))
  /\ WF_vars(RunIndustry(1))
  /\ WF_vars(RunEntity(1))
  /\ WF_vars(RunSynthesis(1))
  /\ WF_vars(Respond(1))

SpecLive == InitLive /\ [][NextLive]_vars /\ TimeBoxed

(***************************************************************************)
(* Properties.                                                              *)
(***************************************************************************)
\* the positions of a request inside its loops, where last is defined
LoopPcs == {"research", "collab", "industry", "entity", "synthesis", "respond"}

InLoop(r) == runs[r].pc \in LoopPcs

\* the positions at which a text-generation call for match i is awaited
StagePcs == {"research", "collab", "industry", "entity", "synthesis"}

\* the stages match i of request r has been through, and their outcomes
logOf(r) == runs[r].queue[runs[r].i].log

stagesOf(log) == [k \in 1..Len(log) |-> log[k].stage]

failedIn(log) == \E k \in 1..Len(log) : log[k].outcome = "failed"

\* the stored row of a key
rowsOf(for, to, tier) == {row \in intros : SameKey(row, for, to, tier)}

C2_NoCandidateInBothTiers ==
  \A a, b \in intros :
    (a.for_member_id = b.for_member_id /\ a.to_member_id = b.to_member_id)
      => a.tier = b.tier

\* C3 (as claimed): a second request for the same subject and tier, with the
\* same candidates and nothing reset or deleted, leaves the same set of
\* stored keys as the first
C3_SameKeysAfterSecondRun ==
  \A r1, r2 \in RunIds :
    ( /\ runs[r1].pc = "done" /\ runs[r2].pc = "done"
      /\ r1 \in runs[r2].prior
      /\ runs[r1].response = 200 /\ runs[r2].response = 200
      /\ runs[r1].tier = runs[r2].tier
      /\ runs[r1].subject = runs[r2].subject
      /\ runs[r1].pool = runs[r2].pool
      /\ ops = 0 )
    => runs[r2].keys = runs[r1].keys

\* C4: while no text-generation call has returned a response, every stored
\* record carries the fallback rationale of its pair, all three fields
\* non-empty
C4_FallbackWhenAllCallsFail ==
  ~answered =>
    \A row \in intros :
      LET fallback == SimpleRationale(row.for_member_id, row.to_member_id)
      IN  /\ row.rationale_ops = fallback.rationale_ops
          /\ row.creative_angle = fallback.creative_angle
          /\ row.intro_basis = fallback.intro_basis
          /\ row.rationale_ops # "" /\ row.creative_angle # "" /\ row.intro_basis # ""

\* every call so far failed and a request has answered with a stored record
C4_AllFailedAndStored ==
  /\ ~answered
  /\ \E r \in RunIds :
       /\ runs[r].pc = "done" /\ runs[r].response = 200
       /\ runs[r].keys # {}
       /\ \A to \in runs[r].keys : rowsOf(runs[r].subject, to, runs[r].tier) # {}

\* the order of the stages as the claim has it
ClaimedOrder == <<"IndustryResearch", "EntityResearch", "CollaborationResearch", "Synthesis">>

stageOfPc(pc) ==
  CASE pc = "industry" -> "IndustryResearch"
    [] pc = "entity" -> "EntityResearch"
    [] pc = "synthesis" -> "Synthesis"
    [] OTHER -> "CollaborationResearch"

positionIn(order, stage) == CHOOSE k \in 1..Len(order) : order[k] = stage

\* the call awaited comes after exactly the stages before it in the order,
\* all of which returned successfully
issuedInOrder(order, r) ==
  LET n == positionIn(order, stageOfPc(runs[r].pc))
  IN  /\ stagesOf(logOf(r)) = SubSeq(order, 1, n - 1)
      /\ ~failedIn(logOf(r))

ActualOrder == <<"CollaborationResearch", "IndustryResearch", "EntityResearch", "Synthesis">>

C6_FailureSkipsToFallback ==
  \A r \in RunIds :
    /\ runs[r].pc \in {"industry", "entity", "synthesis"} => ~failedIn(logOf(r))
    /\ (InLoop(r) /\ runs[r].last.to # 0 /\ failedIn(runs[r].last.log)) =>
         /\ runs[r].last.written
         /\ runs[r].last.rationale = SimpleRationale(runs[r].subject, runs[r].last.to)

\* C7: every stored record has its three rationale fields non-empty
C7_RationaleNonEmpty ==
  \A row \in intros :
    row.rationale_ops # "" /\ row.creative_angle # "" /\ row.intro_basis # ""

\* a Synthesis answer with an absent or empty field has been received and
\* the pair's record holds the fallback rationale
C7_IncompleteSynthesisStored ==
  \E r \in RunIds :
    /\ InLoop(r) /\ runs[r].last.to # 0
    /\ runs[r].last.log[Len(runs[r].last.log)] = [stage |-> "Synthesis", outcome |-> "incomplete"]
    /\ runs[r].last.written
    /\ \E row \in rowsOf(runs[r].subject, runs[r].last.to, runs[r].tier) :
         LET fallback == SimpleRationale(runs[r].subject, runs[r].last.to)
         IN  /\ row.rationale_ops = fallback.rationale_ops
             /\ row.creative_angle = fallback.creative_angle
             /\ row.intro_basis = fallback.intro_basis

ResearchStages == {"IndustryResearch", "EntityResearch", "CollaborationResearch"}

\* C8 (as claimed): a pair one of whose research stages returned an object
\* without an expected field is stored with the fallback rationale
C8_IncompleteResearchFallsBack ==
  \A r \in RunIds :
    ( /\ InLoop(r) /\ runs[r].last.to # 0 /\ runs[r].last.written
      /\ \E k \in 1..Len(runs[r].last.log) :
           /\ runs[r].last.log[k].stage \in ResearchStages
           /\ runs[r].last.log[k].outcome = "incomplete" )
    => runs[r].last.rationale = SimpleRationale(runs[r].subject, runs[r].last.to)

\* C9 (as claimed): the score of two different profiles is at least the
\* baseline
C9_AtLeastBaseline ==
  (probe.phase = "scored" /\ probe.member1 # probe.member2)
    => probe.result.score >= universalPoints

\* C10: the score is an integer from 0 to 100
C10_ScoreInRange ==
  probe.phase = "scored" => probe.result.score \in 0..maxPossiblePoints

\* a pair scored with a research object of MaxIdeas ideas and rating high
\* reaches 100
C10_BoostedToCap ==
  /\ probe.phase = "scored"
  /\ probe.research.present
  /\ Len(probe.research.creative_collaboration_ideas) = MaxIdeas
  /\ probe.research.value_rating = "high"
  /\ probe.result.score = maxPossiblePoints

\* C11: a profile scored against itself gets total score 0 and an empty
\* breakdown, for every similarity and research object
C11_SelfMatchIsZero ==
  (probe.phase = "scored" /\ probe.member1 = probe.member2)
    => (probe.result.score = 0 /\ probe.result.breakdown = <<>>)

\* a profile has been scored against itself at similarity 1 with research
C11_SelfScoredWithResearch ==
  /\ probe.phase = "scored"
  /\ probe.member1 = probe.member2
  /\ probe.similarity = 1000
  /\ probe.research.present
  /\ probe.result.score = 0

\* the position of the complementary-value category in the breakdown
ComplementaryIndex == 3

\* the same call without the research object
withoutResearch ==
  calculateMatchScore(Profiles[probe.member1], Profiles[probe.member2],
                      probe.similarity, NoResearch)

\* C12: for distinct profiles a research object never lowers the result: the
\* complementary-value points are at least those without research and at most
\* the category maximum, every other category is unchanged, and the total is
\* at least the total without research
C12_ResearchNeverLowers ==
  (probe.phase = "scored" /\ probe.member1 # probe.member2 /\ probe.research.present)
    => /\ Len(probe.result.breakdown) = Len(withoutResearch.breakdown)
       /\ \A k \in 1..Len(probe.result.breakdown) :
            IF k = ComplementaryIndex
            THEN /\ probe.result.breakdown[k].points >= withoutResearch.breakdown[k].points
                 /\ probe.result.breakdown[k].points <= maxComplementaryPoints
            ELSE probe.result.breakdown[k] = withoutResearch.breakdown[k]
       /\ probe.result.score >= withoutResearch.score

\* a research object has raised the complementary-value points of a pair
C12_ResearchRaised ==
  /\ probe.phase = "scored"
  /\ probe.member1 # probe.member2
  /\ probe.research.present
  /\ probe.result.breakdown[ComplementaryIndex].points
       > withoutResearch.breakdown[ComplementaryIndex].points
  /\ probe.result.score > withoutResearch.score

\* the members whose registration request carried consent = false
declinedIds == {m.member_id : m \in {x \in members : x.declined}}

\* C13: an attendee who registered with consent = false is never the candidate
\* of a match record
C13_DeclinedNeverCandidate ==
  \A i \in intros : i.to_member_id \notin declinedIds

\* C14: no stored match record has its subject as its candidate, and none has
\* score 0
C14_NoSelfNoZeroScore ==
  \A i \in intros : i.for_member_id # i.to_member_id /\ i.score # 0

\* a run has answered 200 and records it stored are in the table
C14_RunStoredRecords ==
  \E r \in RunIds :
    /\ runs[r].pc = "done"
    /\ runs[r].response = 200
    /\ runs[r].keys # {}
    /\ \E i \in intros : i.for_member_id = runs[r].subject /\ i.tier = runs[r].tier

\* the candidates of the ranking probe whose stored vector JSON.parse rejects
unparsable ==
  {probe.candidates[k].member_id : k \in
     {j \in 1..Len(probe.candidates) : ~JSONparse(probe.candidates[j].embedding_ops).ok}}

\* C15: when exactly one candidate of a pool of N has a vector that cannot be
\* parsed, the ranking is produced, that candidate is not in it, the other
\* N-1 candidates all are, each with a positive score, in descending order
C15_OneThrowExcludesOne ==
  (probe.phase = "ranked" /\ Cardinality(unparsable) = 1)
    => /\ idsOf(probe.result) = idsOf(probe.candidates) \ unparsable
       /\ Len(probe.result) = Len(probe.candidates) - 1
       /\ \A k \in 1..Len(probe.result) : probe.result[k].score > 0
       /\ \A k \in 1..(Len(probe.result) - 1) :
            probe.result[k].score >= probe.result[k + 1].score

\* a pool of four candidates, one of them with a malformed vector, was ranked
\* and the three others came out
C15_OneOfFourThrew ==
  /\ probe.phase = "ranked"
  /\ Len(probe.candidates) = 4
  /\ Cardinality(unparsable) = 1
  /\ Len(probe.result) = 3

\* C16: a run leaves no consenting member out of the candidates it scores for
\* want of a vector: a vector computation is attempted for each of them first
C16_NoCandidateSkipped ==
  \A r \in RunIds : InLoop(r) => runs[r].skipped = {}

\* the number of rows table vectors holds for a member
vectorCount(id) ==
  BagCardinality([v \in {x \in BagToSet(vectors) : x.member_id = id} |-> vectors[v]])

\* C17: each attendee has zero or one stored vector, whatever the interleaving
\* of the background, the lazy and the bulk embedding
C17_AtMostOneVector ==
  \A id \in Ids : vectorCount(id) <= 1

\* the bulk embedding stored a vector for a member that had got one since the
\* request read the members without a vector, and the member has one row
C17_SecondEmbeddingOverwrote ==
  /\ bulk.pc \in {"embed", "done"}
  /\ \E id \in bulk.overwrote : vectorCount(id) = 1

\* the members a finished bulk embedding reports as failed
reportedFailed ==
  {bulk.results[k].member_id : k \in
     {j \in 1..Len(bulk.results) : bulk.results[j].status = "failed"}}

\* C18: a finished bulk embedding reports as failed exactly the members for
\* which it stored no vector, and as generated the number of vectors it wrote
C18_ReportMatchesStore ==
  (bulk.pc = "done" /\ bulk.total > 0)
    => /\ bulk.generated = Cardinality(bulk.written)
       /\ bulk.failed = bulk.total - Cardinality(bulk.written)
       /\ reportedFailed = {bulk.todo[k] : k \in 1..Len(bulk.todo)} \ bulk.written

\* C19: every stored vector and every stored match record refers to existing
\* attendees only, as owner, subject and candidate; member ids are never
\* reused, so nothing of a deleted attendee remains
C19_ReferentialIntegrity ==
  /\ \A v \in BagToSet(vectors) : v.member_id \in MemberIds
  /\ \A i \in intros : i.for_member_id \in MemberIds /\ i.to_member_id \in MemberIds

\* a deletion has completed while a run was in its loop, and the run's insert
\* of a record naming the deleted attendee was rejected
C19_InsertAfterDeletionRejected ==
  /\ deleting = NoDelete
  /\ \E r \in RunIds :
       /\ InLoop(r)
       /\ "rationale" \in DOMAIN runs[r].last
       /\ ~runs[r].last.written
       /\ runs[r].subject \notin MemberIds \/ runs[r].last.to \notin MemberIds

\* C20: a generation request for an attendee that existed when the request
\* arrived (no 404) and still exists is answered with success whatever the
\* external capabilities did
C20_ExistingSubjectSucceeds ==
  \A r \in RunIds :
    (runs[r].pc = "done" /\ runs[r].response # 404 /\ runs[r].subject \in MemberIds)
      => runs[r].response = 200

\* the score data calculateMatchScore returns for the pair of a match record
\* with the research object stored in the record
rescoredRecord(i) ==
  calculateMatchScore(Profiles[i.for_member_id], Profiles[i.to_member_id],
                      cosineSimilarity(EmbeddingOf(i.for_member_id),
                                       EmbeddingOf(i.to_member_id)),
                      i.score_breakdown.complementaryValueResearch)

\* C21: a match record whose CollaborationResearch call succeeded carries the
\* score and the breakdown calculateMatchScore returns with that research
C21_PersistedScoreUsesResearch ==
  \A i \in intros :
    i.score_breakdown.complementaryValueResearch.present
      => /\ i.score = rescoredRecord(i).score
         /\ i.score_breakdown.breakdown = pointsOf(rescoredRecord(i))

\* C22: a generation request that has arrived is eventually answered
C22_EveryRequestAnswered ==
  (runs[1].pc \notin {"idle", "done"}) ~> (runs[1].pc = "done")

\* C23: the substring-or-cluster verdict of matchesNeedAsset is the same for a
\* pair of phrases and for the swapped pair, and when the results for the two
\* orders differ the pattern rule has decided
C23_SubstringAndClusterSymmetric ==
  probe.phase = "matched"
    => /\ (probe.forward.direct \/ probe.forward.cluster)
            = (probe.backward.direct \/ probe.backward.cluster)
       /\ probe.forward.result # probe.backward.result
            => probe.forward.pattern # probe.backward.pattern

\* a pair in one cluster without the pattern rule, and a pair that only the
\* pattern rule matches, in one order
C23_ClusterPairMatched ==
  /\ probe.phase = "matched"
  /\ probe.need # probe.asset
  /\ probe.forward.cluster /\ probe.backward.cluster
  /\ ~probe.forward.direct
  /\ ~probe.forward.pattern

\* C24: an admin request (member listing, delete one member, delete all
\* members, reset matches, generate all embeddings) of a session without a
\* successful login since its last logout is answered 401 and leaves members,
\* vectors and match records as they are
C24_AdminOnlyWhenLoggedIn ==
  [][\A s \in SessionIds :
       (~sessions[s].loggedIn /\ AdminRequest(s))
         => /\ sessions'[s].response = 401
            /\ sessions'[s].listed = sessions[s].listed
            /\ UNCHANGED <<members, vectors, intros, deleting, bulk>>]_vars

\* a browser that had logged out was refused, and the match records are
\* there, after the other, logged in, had its listing and deleted a member
C24_RefusedAfterLogout ==
  \E s \in SessionIds, t \in SessionIds :
    /\ s # t
    /\ sessions[s].loggedOut /\ sessions[s].refused /\ sessions[s].response = 401
    /\ sessions[t].loggedIn /\ sessions[t].listed # {}
    /\ deleting = NoDelete /\ 3 \notin MemberIds
    /\ intros # {}

\* the position of a member in a list of ids or of entries
indexIn(ids, id) == CHOOSE k \in 1..Len(ids) : ids[k] = id

entryIndex(entries, id) == CHOOSE k \in 1..Len(entries) : entries[k].member_id = id

\* the entries of a list that are not among the selected
notSelected(entries, top3) ==
  {entries[k] : k \in {j \in 1..Len(entries) :
     \A i \in 1..Len(top3) : top3[i].member_id # entries[j].member_id}}

\* at most three are selected and none of them has a lower final score than
\* the last computed score of a candidate left out
selectedAreBest ==
  /\ Len(probe.top3) <= 3
  /\ \A i \in 1..Len(probe.top3) :
       \A c \in notSelected(probe.researchedCandidates, probe.top3) :
         probe.top3[i].score >= c.score

IntroPcs == {"collab", "industry", "entity", "synthesis", "respond"}

finished(r) ==
  IF runs[r].pc = "respond" THEN 1..Len(runs[r].queue) ELSE 1..(runs[r].i - 1)

\* nothing has failed for the candidate itself: its research returned (a
\* brainstorm match without research was skipped), and neither it nor the
\* subject is deleted or being deleted
unharmed(r, entry) ==
  /\ runs[r].tier = "brainstorm" => entry.research.present
  /\ {runs[r].subject, entry.member_id} \subseteq MemberIds
  /\ deleting.pc # "idle" => deleting.memberId \notin {runs[r].subject, entry.member_id}

\* C26: in the intro loop of a run, every candidate whose pipeline is over
\* and for which nothing failed has its match record, whatever happened to
\* the other candidates; and a step of a candidate's pipeline leaves the
\* records of every other pair as they are
C26_FailuresAreIsolated ==
  /\ [](\A r \in RunIds :
          runs[r].pc \in IntroPcs
            => \A j \in finished(r) :
                 unharmed(r, runs[r].queue[j])
                   => rowsOf(runs[r].subject, runs[r].queue[j].member_id, runs[r].tier) # {})
  /\ [][\A r \in RunIds :
          (runs[r].pc \in IntroPcs /\ runs'[r] # runs[r])
            => \A row \in intros :
                 ~SameKey(row, runs[r].subject, runs[r].queue[runs[r].i].member_id,
                          runs[r].tier)
                   => row \in intros']_vars

\* a brainstorm run at its answer: the research of its first match failed
\* and the match was skipped, the second match went through every stage and
\* is stored
C26_StoredAfterSkippedMatch ==
  /\ runs[1].pc = "respond" /\ runs[1].tier = "brainstorm" /\ Len(runs[1].queue) = 2
  /\ ~runs[1].queue[1].research.present
  /\ rowsOf(runs[1].subject, runs[1].queue[1].member_id, "brainstorm") = {}
  /\ runs[1].last.to = runs[1].queue[2].member_id /\ runs[1].last.written
  /\ Len(runs[1].last.log) = 4
  /\ rowsOf(runs[1].subject, runs[1].queue[2].member_id, "brainstorm") # {}

\* C27: the fallback rationale is a sentence made from a need/asset match
\* exactly when matchesNeedAsset accepts at least one need/asset pair of the
\* two profiles, in either direction
C27_FallbackFollowsMatcher ==
  probe.phase = "rationale"
    => ((probe.matches # <<>> /\ probe.rationale.rationale_ops = probe.matches[1])
          <=> probe.pairs > 0)

\* no stage occurs twice in a log
issuedOnce(log) ==
  \A k \in 1..Len(log), l \in 1..Len(log) : k # l => log[k].stage # log[l].stage

\* C28: within a run no candidate is in the list twice, and for each
\* candidate each stage's call is issued at most once, at most four calls in
\* all, also after a call failed
C28_EachStageOncePerPair ==
  \A r \in RunIds :
    InLoop(r)
      => /\ \A j \in 1..Len(runs[r].queue), k \in 1..Len(runs[r].queue) :
              j # k => runs[r].queue[j].member_id # runs[r].queue[k].member_id
         /\ \A j \in 1..Len(runs[r].queue) :
              issuedOnce(runs[r].queue[j].log) /\ Len(runs[r].queue[j].log) <= 4
         /\ runs[r].last # NoLast
              => issuedOnce(runs[r].last.log) /\ Len(runs[r].last.log) <= 4

\* a top3 run at its answer: the research call and the Stage 1 call of its
\* second match both failed, each was issued once, the match is stored
C28_FailedCallsNotRepeated ==
  /\ runs[1].pc = "respond" /\ runs[1].tier = "top3" /\ Len(runs[1].queue) = 2
  /\ runs[1].last.to = runs[1].queue[2].member_id
  /\ stagesOf(runs[1].last.log) = <<"CollaborationResearch", "IndustryResearch">>
  /\ \A k \in 1..2 : runs[1].last.log[k].outcome = "failed"

\* C29: each subject has at most 3 top-tier match records, also after a
\* further top3 run that follows a registration
C29_AtMostThreeTopRecords ==
  \A id \in MemberIds :
    Cardinality({row \in intros : row.for_member_id = id /\ row.tier = "top3"}) <= 3

\* C30: in every step, a record that is acknowledged and still exists is
\* acknowledged afterwards, also when its key is regenerated; and a step
\* that changes the status of a record changes it from draft to
\* acknowledged and changes nothing else in the store
C30_AcknowledgedStays ==
  [][\A row \in intros, after \in intros' :
       after.intro_id = row.intro_id
         => /\ row.status = "acknowledged" => after.status = "acknowledged"
            /\ row.status # after.status
                 => /\ after = [row EXCEPT !.status = "acknowledged"]
                    /\ intros' \ {after} = intros \ {row}
                    /\ UNCHANGED <<members, vectors>>]_vars

\* an acknowledged record of a key that the second request for the same
\* subject and tier has written again
C30_AcknowledgedAndRegenerated ==
  /\ runs[1].pc = "done" /\ runs[2].pc = "respond"
  /\ runs[2].subject = runs[1].subject /\ runs[2].tier = runs[1].tier
  /\ runs[2].last # NoLast /\ runs[2].last.written
  /\ runs[2].last.to \in runs[1].keys
  /\ \E row \in rowsOf(runs[2].subject, runs[2].last.to, runs[2].tier) :
       /\ row.status = "acknowledged"
       /\ row.rationale_ops = runs[2].last.rationale.rationale_ops

====
